---------------------------- MODULE Spec2Model ----------------------------
(***************************************************************************)
(* A model of target-snowflake as it stands under src/.                    *)
(*                                                                         *)
(* Part 1 (specification Spec): one flush of SnowflakeSink after another,  *)
(* SnowflakeSink.process_batch_files of src/target_snowflake/sinks.py,     *)
(* statement by statement, against a warehouse that holds the stage, the   *)
(* file formats and the target table.  Every statement the sink executes   *)
(* is a call into the warehouse and may raise.                             *)
(*                                                                         *)
(* Part 2 (specifications SpecSinkDDL and SpecConnectorDDL): the           *)
(* reconciliation of a stream's schema with its table, prepare_table and   *)
(* prepare_column, once with the connector class of sinks.py, which reads  *)
(* the table's columns from the warehouse at every call, and once with the *)
(* connector class of connector.py, whose get_table_columns keeps them in  *)
(* table_cache.                                                            *)
(*                                                                         *)
(* Part 3 (specifications SpecTypes and SpecNames): the pure functions,    *)
(* the mapping of a property's JSON schema to an engine type and the       *)
(* normalisation of an identifier, applied to inputs drawn in Init.        *)
(*                                                                         *)
(* Part 4 (specification SpecConcurrent): the flushes of two sinks that    *)
(* load the same physical table, interleaved statement by statement.       *)
(*                                                                         *)
(* Part 5: the remaining units, each under a specification of its own.     *)
(* SpecAuth: SnowflakeConnector.auth_method applied to a configuration.    *)
(* SpecBatches: SnowflakeSink.get_batches, one batch file after another.   *)
(* SpecPut: the PUT statements of both classes, as they are executed.      *)
(* SpecInitializer: the account initializer, prompt by prompt.             *)
(* SpecColumns: calls of get_table_columns with one filter and another.    *)
(* SpecMerge: the MERGE statement each class builds for a schema.          *)
(***************************************************************************)
EXTENDS Integers, Sequences, FiniteSets, TLC

\* ------------------------------------------------------------------ bounds
NumKeys == 2
NumVals == 2
MaxBatch == 2
MaxFlushes == 2

Keys == 1..NumKeys
Vals == 1..NumVals
\* A record of the stream {id, amount}; id is the only candidate key property.
Records == [id : Keys, amount : Vals]

VARIABLES
    \* configuration of the sink and the session
    key_properties,        \* self.key_properties: <<>> or <<"id">>
    clean_up_batch_files,  \* self.config.get("clean_up_batch_files")
    errorOnNondetMerge,    \* session parameter ERROR_ON_NONDETERMINISTIC_MERGE
    \* the warehouse
    table,                 \* rows of the target table, in insertion order
    tableExists,
    schemaExists,
    staged,                \* staged files, as <<sync_id, index of the file>>
    formats,               \* file formats, each named after a sync_id
    \* the local file system
    localFiles,            \* local batch files, as <<sync_id, index>>
    \* the flush in progress (locals of process_batch_files)
    pc,
    sync_id,
    files,                 \* the argument files: a sequence of files of records
    putIdx,
    err,                   \* the exception raised inside the try block
    log,                   \* the statements executed by this flush, in order
    \* how the last flush ended
    result,                \* "none" | "ok" | "raised"
    exc,                   \* the exception that reached the caller
    \* history
    nFlushes,
    lastFlushed,           \* per key: amount of the record flushed last
    prevFiles,             \* files of the last flush that returned normally
    prevTable,             \* the table when that flush returned
    redelivery,            \* this flush repeats prevFiles on prevTable
    startLen,              \* Len(table) when this flush started
    \* the connector and the table's columns (part 2)
    cls,                   \* the connector class: "sinks" or "connector"
    columns,               \* the table's columns: name -> engine type
    table_cache,           \* self.table_cache[full_table_name], if any
    schema_cache,          \* self.schema_cache
    rpc,                   \* position in prepare_table
    schema,                \* the schema being reconciled: <<[name, type]>>
    propIdx,               \* the property prepare_table has come to
    ddl,                   \* the DDL statements this reconciliation issued
    rerr,                  \* the exception that ended this reconciliation
    lastSchema,            \* the schema of the last reconciliation that returned
    sameAgain,             \* this reconciliation repeats lastSchema
    nReconciles,
    rnames,                \* what the exception that ended it names
    \* the pure functions and their inputs (part 3)
    field,                 \* the JSON schema of a property
    sinks_sql_type,        \* to_sql_type(field), connector class of sinks.py
    connector_sql_type,    \* to_sql_type(field), connector class of connector.py
    identifier,            \* a column or schema name, as a sequence of characters
    prepared,              \* the calls that normalised it, each with its result
    \* two sinks flushing at once (part 4)
    sink,                  \* per sink: the locals of its process_batch_files
    stage,                 \* the user stage: the files under @~/target-snowflake/
    file_formats,          \* the file formats of the warehouse
    generated,             \* the values uuid4() has returned, in order
    creates,               \* the CREATE TABLE statements issued
    \* the remaining units (part 5)
    auth_config,           \* the configuration given to the connector
    auth,                  \* what auth_method returned or raised
    batch_records,         \* get_batches: the records it is given
    max_size,              \* self.MAX_SIZE_DEFAULT
    batch_i,               \* the number of the chunk it has come to
    written,               \* the files written: file name -> records
    file_urls,             \* the list file_urls
    batches_returned,      \* get_batches has returned file_urls
    put_sync_id,           \* the sync_id of the flush that stages files
    put_calls,             \* the PUTs executed: file_uri, text and parameters
    init_pc,               \* initializer(): the position in it
    dry_run,               \* the answer to the dry_run prompt
    script,                \* script.split(";"): statements and blank pieces
    stmt_i,                \* the piece the loop has come to
    confirm,               \* the answer to "Confirm?": "none", "yes" or "no"
    connected,             \* connector._connect() has been entered
    executed,              \* the pieces given to conn.execute, by number
    echoed,                \* what click.echo has printed of the script
    exit_status,           \* the status of sys.exit: -1 before it, or none
    column_calls,          \* the calls of get_table_columns: filter and result
    merge_properties,      \* schema["properties"]: the names, in order
    merge_keys,            \* key_properties of the stream
    merge_statement        \* the MERGE statement built, clause by clause

vars == <<key_properties, clean_up_batch_files, errorOnNondetMerge, table,
          tableExists, schemaExists, staged, formats, localFiles, pc, sync_id,
          files, putIdx, err, log, result, exc, nFlushes, lastFlushed,
          prevFiles, prevTable, redelivery, startLen, cls, columns,
          table_cache, schema_cache, rpc, schema, propIdx, ddl, rerr,
          lastSchema, sameAgain, nReconciles, rnames, field, sinks_sql_type,
          connector_sql_type, identifier, prepared, sink, stage, file_formats,
          generated, creates, auth_config, auth, batch_records, max_size,
          batch_i, written, file_urls, batches_returned, put_sync_id,
          put_calls, init_pc, dry_run, script, stmt_i, confirm, connected,
          executed, echoed, exit_status, column_calls, merge_properties,
          merge_keys, merge_statement>>

\* the variables of parts 3 and 4, which parts 1 and 2 leave alone
pureVars == <<field, sinks_sql_type, connector_sql_type, identifier, prepared>>
concVars == <<sink, stage, file_formats, generated, creates>>
\* the variables of part 5, which parts 1 to 4 leave alone
authVars == <<auth_config, auth>>
batchVars == <<batch_records, max_size, batch_i, written, file_urls, batches_returned>>
putVars == <<put_sync_id, put_calls>>
initVars == <<init_pc, dry_run, script, stmt_i, confirm, connected, executed,
              echoed, exit_status>>
mergeVars == <<merge_properties, merge_keys, merge_statement>>
unitVars == <<authVars, batchVars, putVars, initVars, column_calls, mergeVars>>

\* the variables of part 2, and of part 1 but for tableExists and schemaExists
ddlState == <<cls, columns, table_cache, schema_cache, rpc, schema, propIdx, ddl,
              rerr, lastSchema, sameAgain, nReconciles, rnames>>
flushState == <<key_properties, clean_up_batch_files, errorOnNondetMerge, table,
                staged, formats, localFiles, pc, sync_id, files, putIdx, err,
                log, result, exc, nFlushes, lastFlushed, prevFiles, prevTable,
                redelivery, startLen>>
\* the variables a flush of part 1 leaves alone
ddlVars == <<ddlState, pureVars, concVars, unitVars>>
\* the variables a reconciliation of part 2 leaves alone
flushVars == <<flushState, pureVars, concVars, unitVars>>

\* ----------------------------------------------------------------- helpers
RECURSIVE Flatten(_)
Flatten(ss) == IF ss = <<>> THEN <<>> ELSE Head(ss) \o Flatten(Tail(ss))

Min(a, b) == IF a < b THEN a ELSE b

\* lazy_chunked_generator(records, n): consecutive chunks of at most n records
RECURSIVE lazy_chunked_generator(_, _)
lazy_chunked_generator(records, n) ==
    IF records = <<>> THEN <<>>
    ELSE <<SubSeq(records, 1, Min(n, Len(records)))>>
         \o lazy_chunked_generator(SubSeq(records, Min(n, Len(records)) + 1, Len(records)), n)

SeqsUpTo(S, n) == UNION {[1..m -> S] : m \in 1..n}

\* the file lists get_batches can hand to process_batch_files
FileLists ==
    {lazy_chunked_generator(b, n) : b \in SeqsUpTo(Records, MaxBatch), n \in 1..MaxBatch}

Indices(s) == 1..Len(s)

\* the number of rows of t equal to r
Count(t, r) == Cardinality({i \in Indices(t) : t[i] = r})
SameRows(t, u) == \A r \in Records : Count(t, r) = Count(u, r)

\* the amount of the last record of rs with key k (0 when there is none)
LastAmount(rs, k) ==
    LET I == {i \in Indices(rs) : rs[i].id = k}
    IN  IF I = {} THEN 0
        ELSE rs[CHOOSE i \in I : \A j \in I : j <= i].amount


\* ------------------------------------------------ types and schemas
max_varchar_length == 16777216
\* a maxLength a string property may declare
DeclaredLength == 10
MaxReconciles == 3

\* engine types, as str() shows them: a name and, for VARCHAR, a length
NUMBER == [name |-> "NUMBER", length |-> 0]
DOUBLE == [name |-> "DOUBLE", length |-> 0]
VARIANT == [name |-> "VARIANT", length |-> 0]
VARCHAR(n) == [name |-> "VARCHAR", length |-> n]
BOOLEAN_ == [name |-> "BOOLEAN", length |-> 0]
TIMESTAMP_NTZ == [name |-> "TIMESTAMP_NTZ", length |-> 0]
TIME == [name |-> "TIME", length |-> 0]
DATE == [name |-> "DATE", length |-> 0]
\* no type: the function has not been applied
NoType == [name |-> "none", length |-> 0]

\* The JSON schema of a property: the set of its type tags ("type" as a string
\* is the set of that one tag), its format ("": none) and its maxLength (0:
\* not declared).
Plain(tag) == [type |-> {tag}, format |-> "", maxLength |-> 0]

\* the properties of the schemas part 2 reconciles
FieldSchemas ==
    {Plain("integer"), Plain("number"), Plain("object"), Plain("string"),
     [Plain("string") EXCEPT !.maxLength = DeclaredLength]}

\* Property names that need no quoting: prepare_column leaves them as they are
\* and the warehouse's metadata returns them as they were given.
Names == <<"a", "b">>

\* SQLConnector.to_sql_type, the default implementation to_sql_type falls back
\* on: several concrete types become the semi-structured type, a "number" the
\* floating-point type, a "boolean" the boolean type, anything else text.
SQLConnector_to_sql_type(jsonschema_type) ==
    IF Cardinality(jsonschema_type.type \ {"null"}) > 1 THEN VARIANT
    ELSE IF "number" \in jsonschema_type.type THEN DOUBLE
    ELSE IF "boolean" \in jsonschema_type.type THEN BOOLEAN_
    ELSE VARCHAR(max_varchar_length)

\* to_sql_type of sinks.py.  Each test asks whether the tag is among the
\* property's types, in this order: a string becomes the type of its date-like
\* format, or a VARCHAR of its maxLength (of the greatest length when it
\* declares none); an integer a NUMBER; an object or an array a VARIANT;
\* anything else is left to the default implementation.
to_sql_type(jsonschema_type) ==
    IF "string" \in jsonschema_type.type
    THEN CASE jsonschema_type.format = "date-time" -> TIMESTAMP_NTZ
           [] jsonschema_type.format = "time" -> TIME
           [] jsonschema_type.format = "date" -> DATE
           [] OTHER -> VARCHAR(IF jsonschema_type.maxLength = 0
                               THEN max_varchar_length
                               ELSE jsonschema_type.maxLength)
    ELSE IF "integer" \in jsonschema_type.type THEN NUMBER
    ELSE IF "object" \in jsonschema_type.type THEN VARIANT
    ELSE IF "array" \in jsonschema_type.type THEN VARIANT
    ELSE SQLConnector_to_sql_type(jsonschema_type)

\* The order of the type-compatibility lattice: NUMBER below DOUBLE, a VARCHAR
\* below every VARCHAR at least as long, and VARIANT above everything.
Leq(t, u) ==
    \/ t = u
    \/ u = VARIANT
    \/ t = NUMBER /\ u = DOUBLE
    \/ t.name = "VARCHAR" /\ u.name = "VARCHAR" /\ t.length <= u.length

\* merge_sql_types([current_type, sql_type]): the join of the two types
merge_sql_types(current_type, sql_type) ==
    IF Leq(current_type, sql_type) THEN sql_type
    ELSE IF Leq(sql_type, current_type) THEN current_type
    ELSE VARIANT

\* JSONSchemaToSQL.handle_multiple_types, the default that
\* JSONSchemaToSnowflake.handle_multiple_types leaves the other type lists
\* to: the semi-structured type or a text type.
JSONSchemaToSQL_handle_multiple_types(types) == {VARIANT, VARCHAR(max_varchar_length)}

\* JSONSchemaToSnowflake.handle_multiple_types: the types it can return
handle_multiple_types(types) ==
    IF "object" \in types \/ "array" \in types THEN {VARIANT}
    ELSE JSONSchemaToSQL_handle_multiple_types(types)

\* The handlers jsonschema_to_sql finds registered upstream, as the tests of
\* the connector pin them: a boolean is a BOOLEAN, a string a TIME, a DATE or
\* a VARCHAR of its maxLength, never longer than max_varchar_length.
JSONSchemaToSQL_handlers(tag, format, maxLength) ==
    CASE tag = "boolean" -> BOOLEAN_
      [] tag = "string" /\ format = "time" -> TIME
      [] tag = "string" /\ format = "date" -> DATE
      [] OTHER -> VARCHAR(IF maxLength = 0 THEN max_varchar_length
                          ELSE Min(maxLength, max_varchar_length))

\* a slip: "number" is registered with the type of "integer"
jsonschema_to_sql_number_as_integer(tag, format, maxLength) ==
    CASE tag \in {"integer", "number"} -> NUMBER
      [] tag \in {"object", "array"} -> VARIANT
      [] tag = "string" /\ format = "date-time" -> TIMESTAMP_NTZ
      [] OTHER -> JSONSchemaToSQL_handlers(tag, format, maxLength)

\* jsonschema_to_sql of connector.py: the handlers it registers come first
jsonschema_to_sql(tag, format, maxLength) ==
    CASE tag = "integer" -> NUMBER
      [] tag = "object" -> VARIANT
      [] tag = "array" -> VARIANT
      [] tag = "number" -> DOUBLE
      [] tag = "string" /\ format = "date-time" -> TIMESTAMP_NTZ
      [] OTHER -> JSONSchemaToSQL_handlers(tag, format, maxLength)

\* to_sql_type of the connector class of connector.py: the types it can
\* return.  "null" does not count; one type goes to its handler, several to
\* handle_multiple_types.
connector_to_sql_type(jsonschema_type) ==
    LET types == jsonschema_type.type \ {"null"}
    IN  IF Cardinality(types) = 1
        THEN {jsonschema_to_sql(CHOOSE t \in types : TRUE,
                                jsonschema_type.format, jsonschema_type.maxLength)}
        ELSE handle_multiple_types(jsonschema_type.type)

\* ---- the inputs of part 3
\* a type list holds at most MaxTags of the concrete type tags
MaxTags == 3
TypeTags == {"string", "integer", "number", "boolean", "object", "array"}
TypeLists ==
    {T \cup N : T \in {S \in SUBSET TypeTags : Cardinality(S) \in 1..MaxTags},
                N \in {{}, {"null"}}}
Formats == {"", "date-time", "time", "date"}
\* none, below the ceiling, the ceiling, and above it
MaxLengths == {0, DeclaredLength, 1000000, max_varchar_length,
               max_varchar_length + 1, 20000000}
JsonSchemas == [type : TypeLists, format : Formats, maxLength : MaxLengths]
NoField == [type |-> {}, format |-> "", maxLength |-> 0]

\* the schemas a SCHEMA message can carry: properties in the order of Names
Schemas ==
    LET one(n) == {<<[name |-> Names[n], type |-> f]>> : f \in FieldSchemas}
    IN  one(1) \cup one(2) \cup {x \o y : x \in one(1), y \in one(2)}

\* a table with no column, and the statement of a call that issues none
NoColumns == [n \in {} |-> NUMBER]
NoDDL == [op |-> "none", col |-> "", type |-> NUMBER]

\* --------------------------------------------------------- the connector
\* str.casefold(), on the column names of the model
casefold(x) == CASE x = "A" -> "a" [] x = "B" -> "b" [] x = "C" -> "c" [] OTHER -> x

\* get_table_columns(full_table_name, column_names).  The class of
\* connector.py answers from table_cache when the table is in it and stores
\* what it read otherwise; the class of sinks.py reads the warehouse each time.
Selected(cols, column_names) ==
    [n \in {m \in DOMAIN cols :
                \/ column_names = {}
                \/ casefold(m) \in {casefold(col) : col \in column_names}} |-> cols[n]]

get_table_columns(c, cache, cols, column_names) ==
    IF c = "connector" /\ cache.cached THEN cache.cols
    ELSE Selected(cols, column_names)

\* self.table_cache after that call
table_cache_after(c, cache, cols, column_names) ==
    IF c = "connector" /\ ~cache.cached
    THEN [cached |-> TRUE, cols |-> Selected(cols, column_names)]
    ELSE cache

\* _create_empty_column: ALTER TABLE ... ADD COLUMN
_create_empty_column(column_name, sql_type) ==
    [op |-> "ADD COLUMN", col |-> column_name, type |-> sql_type]

\* a slip: the column is altered to the new type, not to the merged one
adapt_to_new_type(current_type, column_name, sql_type) ==
    IF sql_type = current_type THEN NoDDL
    ELSE [op |-> "ALTER COLUMN", col |-> column_name, type |-> sql_type]

\* the class attribute: altering column types is supported
allow_column_alter == TRUE

\* _adapt_column_type: nothing when the types are equal or the merged type
\* is the current one; NotImplementedError when altering is not allowed;
\* ALTER TABLE ... ALTER COLUMN ... SET DATA TYPE otherwise
_adapt_column_type(current_type, column_name, sql_type) ==
    IF sql_type = current_type THEN NoDDL
    ELSE LET compatible_sql_type == merge_sql_types(current_type, sql_type)
         IN  IF compatible_sql_type = current_type THEN NoDDL
             ELSE IF ~allow_column_alter
             THEN [op |-> "NotImplementedError", col |-> column_name,
                   type |-> compatible_sql_type]
             ELSE [op |-> "ALTER COLUMN", col |-> column_name,
                   type |-> compatible_sql_type]

\* What the exception that ends a reconciliation names.  The
\* NotImplementedError of _adapt_column_type names the table and the column,
\* the current type and the compatible type.  An error of the warehouse is
\* raised as it came, with the statement that was rejected: the table, the
\* column and the new type.
ErrorNames(e) ==
    IF e = "NotImplementedError"
    THEN {"table", "column", "old type", "attempted type"}
    ELSE {"table", "column", "attempted type"}

\* prepare_column, on the columns get_table_columns returned
prepare_column(view, column_name, sql_type) ==
    IF column_name \notin DOMAIN view
    THEN _create_empty_column(column_name, sql_type)
    ELSE _adapt_column_type(view[column_name], column_name, sql_type)

\* create_empty_table: one column for every property of the schema
create_empty_table(sch) ==
    [n \in {sch[i].name : i \in Indices(sch)} |->
        to_sql_type((CHOOSE p \in {sch[i] : i \in Indices(sch)} : p.name = n).type)]

target_schema == "ANALYTICS"

\* the schema of the stream the flushes of part 1 load: {id, amount}
stream_schema ==
    <<[name |-> "id", type |-> Plain("integer")],
      [name |-> "amount", type |-> Plain("number")]>>

\* ------------------------------------------------- the warehouse's MERGE
\* The staged source of a flush: the records of the files staged under sid,
\* in the order of the files (select ... from '@~/target-snowflake/<sid>').
StagedSource(sid, fs, st) ==
    Flatten([i \in Indices(fs) |-> IF <<sid, i>> \in st THEN fs[i] ELSE <<>>])

\* join_expr of _get_merge_statement: d."KEY" = s."KEY" for every key property
JoinsOn(keys, d, s) == \A n \in Indices(keys) : keys[n] = "id" => d.id = s.id

Matches(keys, d, src) == {j \in Indices(src) : JoinsOn(keys, d, src[j])}

\* The statement of _get_merge_statement, as the warehouse runs it.  The staged
\* source is joined as it is: nothing removes its duplicates.  A target row
\* that joins one source row is updated to it (matched_clause sets every
\* column); a source row that joins no target row is inserted; a target row
\* that joins several source rows is an error when the session parameter says
\* so, and is updated to any one of them otherwise.  With no key property
\* join_expr is empty and the statement does not compile.
MergeOutcomes(keys, t, src, errorOnNondet) ==
    LET nondet    == \E i \in Indices(t) : Cardinality(Matches(keys, t[i], src)) > 1
        unmatched == SelectSeq(src, LAMBDA s : \A i \in Indices(t) : ~JoinsOn(keys, t[i], s))
        updates   == {f \in [Indices(t) -> Records] :
                        \A i \in Indices(t) :
                            IF Matches(keys, t[i], src) = {} THEN f[i] = t[i]
                            ELSE \E j \in Matches(keys, t[i], src) : f[i] = src[j]}
    IN  IF keys = <<>> THEN {}
        ELSE IF nondet /\ errorOnNondet THEN {}
        ELSE {[i \in 1..(Len(t) + Len(unmatched)) |->
                 IF i <= Len(t) THEN f[i] ELSE unmatched[i - Len(t)]] : f \in updates}

\* ------------------------------------------------------------------- Init
\* no table, no schema, nothing staged, no flush and no reconciliation begun
StartButColumns ==
    /\ table = <<>>
    /\ tableExists = FALSE
    /\ schemaExists = FALSE
    /\ staged = {}
    /\ formats = {}
    /\ localFiles = {}
    /\ pc = "idle"
    /\ sync_id = 0
    /\ files = <<>>
    /\ putIdx = 0
    /\ err = "none"
    /\ log = <<>>
    /\ result = "none"
    /\ exc = "none"
    /\ nFlushes = 0
    /\ lastFlushed = [k \in Keys |-> 0]
    /\ prevFiles = <<>>
    /\ prevTable = <<>>
    /\ redelivery = FALSE
    /\ startLen = 0
    /\ table_cache = [cached |-> FALSE, cols |-> NoColumns]
    /\ schema_cache = {}
    /\ rpc = "idle"
    /\ schema = <<>>
    /\ propIdx = 0
    /\ ddl = <<>>
    /\ rerr = "none"
    /\ lastSchema = <<>>
    /\ sameAgain = FALSE
    /\ nReconciles = 0
    /\ rnames = {}

\* nothing flushed or reconciled yet, and a table without columns
Start ==
    /\ StartButColumns
    /\ columns = NoColumns

\* no pure function applied
PureIdle ==
    /\ field = NoField
    /\ sinks_sql_type = NoType
    /\ connector_sql_type = NoType
    /\ identifier = <<>>
    /\ prepared = <<>>

\* no second sink
ConcurrentIdle ==
    /\ sink = <<>>
    /\ stage = {}
    /\ file_formats = {}
    /\ generated = <<>>
    /\ creates = 0

\* no connector asked for its authentication method
AuthIdle ==
    /\ auth_config = <<>>
    /\ auth = "none"

\* no batch to write
BatchesIdle ==
    /\ batch_records = <<>>
    /\ max_size = 1
    /\ batch_i = 0
    /\ written = <<>>
    /\ file_urls = <<>>
    /\ batches_returned = FALSE

\* no file to stage
PutIdle ==
    /\ put_sync_id = ""
    /\ put_calls = <<>>

\* the initializer not started
InitializerIdle ==
    /\ init_pc = "idle"
    /\ dry_run = FALSE
    /\ script = <<>>
    /\ stmt_i = 0
    /\ confirm = "none"
    /\ connected = FALSE
    /\ executed = <<>>
    /\ echoed = FALSE
    /\ exit_status = -1

\* no MERGE statement asked for
MergeIdle ==
    /\ merge_properties = <<>>
    /\ merge_keys = <<>>
    /\ merge_statement = <<>>

\* none of the units of part 5 at work
UnitIdle ==
    /\ AuthIdle
    /\ BatchesIdle
    /\ PutIdle
    /\ InitializerIdle
    /\ column_calls = <<>>
    /\ MergeIdle

Init ==
    /\ Start
    /\ PureIdle
    /\ ConcurrentIdle
    /\ UnitIdle
    /\ key_properties \in {<<>>, <<"id">>}
    /\ clean_up_batch_files \in BOOLEAN
    /\ errorOnNondetMerge \in BOOLEAN
    /\ cls = "sinks"

config == <<key_properties, clean_up_batch_files, errorOnNondetMerge>>
history == <<nFlushes, lastFlushed, prevFiles, prevTable, redelivery, startLen>>
ended == <<result, exc>>

\* an exception inside the try block: control passes to the finally block
Raise(e) ==
    /\ err' = e
    /\ pc' = "drop"

\* ---------------------------------------------- process_batch_files, by step
\* bulk_insert_records: get_batches has written the batch files, and
\* process_batch_files starts: a new sync_id (uuid4) and its file format name.
StartFlush ==
    /\ pc = "idle"
    /\ nFlushes < MaxFlushes
    /\ \E fs \in FileLists :
        /\ files' = fs
        /\ localFiles' = localFiles \cup {<<nFlushes + 1, i>> : i \in Indices(fs)}
        /\ redelivery' = (fs = prevFiles /\ table = prevTable)
    /\ sync_id' = nFlushes + 1
    /\ nFlushes' = nFlushes + 1
    /\ putIdx' = 1
    /\ err' = "none"
    /\ log' = <<>>
    /\ result' = "none"
    /\ exc' = "none"
    /\ startLen' = Len(table)
    /\ pc' = "put"
    /\ UNCHANGED <<config, table, tableExists, schemaExists, staged, formats,
                   lastFlushed, prevFiles, prevTable>>
    /\ UNCHANGED ddlVars

\* a slip: the loop ends after the first file
PutFirstOnly ==
    /\ pc = "put"
    /\ log' = Append(log, "put")
    /\ staged' = staged \cup {<<sync_id, putIdx>>}
    /\ putIdx' = putIdx + 1
    /\ pc' = "create_schema"
    /\ UNCHANGED <<config, table, tableExists, schemaExists, formats, localFiles,
                   sync_id, files, err, ended, history>>
    /\ UNCHANGED ddlVars

\* for file_uri in files: execute(put_statement)
Put ==
    /\ pc = "put"
    /\ log' = Append(log, "put")
    /\ \/ /\ staged' = staged \cup {<<sync_id, putIdx>>}
          /\ putIdx' = putIdx + 1
          /\ pc' = IF putIdx = Len(files) THEN "create_schema" ELSE "put"
          /\ UNCHANGED err
       \/ /\ Raise("put")
          /\ UNCHANGED <<staged, putIdx>>
    /\ UNCHANGED <<config, table, tableExists, schemaExists, formats, localFiles,
                   sync_id, files, ended, history>>
    /\ UNCHANGED ddlVars

\* execute("create schema if not exists ...")
CreateSchema ==
    /\ pc = "create_schema"
    /\ log' = Append(log, "create_schema")
    /\ \/ /\ schemaExists' = TRUE
          /\ pc' = "create_file_format"
          /\ UNCHANGED err
       \/ /\ Raise("create_schema")
          /\ UNCHANGED schemaExists
    /\ UNCHANGED <<config, table, tableExists, staged, formats, localFiles,
                   sync_id, files, putIdx, ended, history>>
    /\ UNCHANGED ddlVars

\* execute(file_format_statement): create or replace file format
CreateFileFormat ==
    /\ pc = "create_file_format"
    /\ log' = Append(log, "create_file_format")
    /\ \/ /\ formats' = formats \cup {sync_id}
          /\ pc' = "prepare_table"
          /\ UNCHANGED err
       \/ /\ Raise("create_file_format")
          /\ UNCHANGED formats
    /\ UNCHANGED <<config, table, tableExists, schemaExists, staged, localFiles,
                   sync_id, files, putIdx, ended, history>>
    /\ UNCHANGED ddlVars

\* connector.prepare_table(full_table_name, schema, primary_keys): the table is
\* created when it is absent.  The stream's schema does not change in Spec,
\* so the columns of a table that exists are as the schema maps them, and
\* prepare_column finds nothing to add or alter.
PrepareTable ==
    /\ pc = "prepare_table"
    /\ log' = Append(log, "prepare_table")
    /\ \/ /\ tableExists' = TRUE
          /\ columns' = IF tableExists THEN columns
                        ELSE create_empty_table(stream_schema)
          /\ pc' = "merge"
          /\ UNCHANGED err
       \/ /\ Raise("prepare_table")
          /\ UNCHANGED <<tableExists, columns>>
    /\ UNCHANGED <<config, table, schemaExists, staged, formats, localFiles,
                   sync_id, files, putIdx, ended, history>>
    /\ UNCHANGED <<cls, table_cache, schema_cache, rpc, schema, propIdx, ddl,
                   rerr, lastSchema, sameAgain, nReconciles, rnames, pureVars,
                   concVars, unitVars>>

\* execute(merge_statement): the only load statement the sink has
Merge ==
    /\ pc = "merge"
    /\ log' = Append(log, "merge")
    /\ \/ /\ \E t \in MergeOutcomes(key_properties, table,
                                     StagedSource(sync_id, files, staged),
                                     errorOnNondetMerge) :
                table' = t
          /\ lastFlushed' = [k \in Keys |->
                LET a == LastAmount(Flatten(files), k)
                IN  IF a = 0 THEN lastFlushed[k] ELSE a]
          /\ pc' = "drop"
          /\ UNCHANGED err
       \/ /\ Raise("merge")
          /\ UNCHANGED <<table, lastFlushed>>
    /\ UNCHANGED <<config, tableExists, schemaExists, staged, formats, localFiles,
                   sync_id, files, putIdx, ended, nFlushes, prevFiles, prevTable,
                   redelivery, startLen>>
    /\ UNCHANGED ddlVars

\* finally: execute("drop file format if exists ...").  An exception here
\* leaves the finally block at once, and it is the one the caller sees.
DropFileFormat ==
    /\ pc = "drop"
    /\ log' = Append(log, "drop_file_format")
    /\ \/ /\ formats' = formats \ {sync_id}
          /\ pc' = "remove"
          /\ UNCHANGED ended
       \/ /\ result' = "raised"
          /\ exc' = "drop_file_format"
          /\ pc' = "idle"
          /\ UNCHANGED formats
    /\ UNCHANGED <<config, table, tableExists, schemaExists, staged, localFiles,
                   sync_id, files, putIdx, err, history>>
    /\ UNCHANGED ddlVars

\* finally: execute("remove '@~/target-snowflake/<sync_id>/'")
RemoveStaged ==
    /\ pc = "remove"
    /\ log' = Append(log, "remove")
    /\ \/ /\ staged' = {f \in staged : f[1] # sync_id}
          /\ pc' = "clean_local"
          /\ UNCHANGED ended
       \/ /\ result' = "raised"
          /\ exc' = "remove"
          /\ pc' = "idle"
          /\ UNCHANGED staged
    /\ UNCHANGED <<config, table, tableExists, schemaExists, formats, localFiles,
                   sync_id, files, putIdx, err, history>>
    /\ UNCHANGED ddlVars

\* finally: the local files are removed when clean_up_batch_files is set; then
\* the exception of the try block, if any, goes on to the caller.
CleanLocal ==
    /\ pc = "clean_local"
    /\ localFiles' = IF clean_up_batch_files
                     THEN {f \in localFiles : f[1] # sync_id}
                     ELSE localFiles
    /\ result' = IF err = "none" THEN "ok" ELSE "raised"
    /\ exc' = err
    /\ prevFiles' = IF err = "none" THEN files ELSE prevFiles
    /\ prevTable' = IF err = "none" THEN table ELSE prevTable
    /\ pc' = "idle"
    /\ UNCHANGED <<config, table, tableExists, schemaExists, staged, formats,
                   sync_id, files, putIdx, err, log, nFlushes, lastFlushed,
                   redelivery, startLen>>
    /\ UNCHANGED ddlVars

Next ==
    \/ StartFlush
    \/ Put
    \/ CreateSchema
    \/ CreateFileFormat
    \/ PrepareTable
    \/ Merge
    \/ DropFileFormat
    \/ RemoveStaged
    \/ CleanLocal

Spec == Init /\ [][Next]_vars

\* ------------------------------------------- part 2: prepare_table, by step
InitDDL ==
    /\ Start
    /\ PureIdle
    /\ ConcurrentIdle
    /\ UnitIdle
    /\ key_properties = <<"id">>
    /\ clean_up_batch_files = TRUE
    /\ errorOnNondetMerge = TRUE

InitSinkDDL == InitDDL /\ cls = "sinks"
InitConnectorDDL == InitDDL /\ cls = "connector"

\* prepare_schema: create the schema unless schema_exists says it is there.
\* schema_exists of connector.py answers True for a name in schema_cache and
\* stores the names it read otherwise.
PrepareSchema ==
    /\ rpc = "idle"
    /\ LET hit == cls = "connector" /\ target_schema \in schema_cache
       IN  /\ schema_cache' = IF cls = "connector" /\ ~hit
                              THEN (IF schemaExists THEN {target_schema} ELSE {})
                              ELSE schema_cache
           /\ schemaExists' = IF hit THEN schemaExists ELSE TRUE
    /\ UNCHANGED <<flushVars, tableExists, cls, columns, table_cache, rpc, schema,
                   propIdx, ddl, rerr, lastSchema, sameAgain, nReconciles, rnames>>

\* prepare_table(full_table_name, schema, primary_keys) for a SCHEMA message:
\* an absent table is created, with its schema; the properties of a table
\* that exists are prepared one by one.
PrepareTableStart ==
    /\ rpc = "idle"
    /\ nReconciles < MaxReconciles
    /\ nReconciles' = nReconciles + 1
    /\ rerr' = "none"
    /\ rnames' = {}
    /\ \E sch \in Schemas :
        /\ schema' = sch
        /\ \/ /\ ~tableExists
              /\ ddl' = <<[op |-> "CREATE TABLE", col |-> "", type |-> NUMBER]>>
              /\ schemaExists' = TRUE
              /\ tableExists' = TRUE
              /\ columns' = create_empty_table(sch)
              /\ lastSchema' = sch
              /\ sameAgain' = FALSE
              /\ UNCHANGED <<rpc, propIdx>>
           \/ /\ tableExists
              /\ ddl' = <<>>
              /\ sameAgain' = (sch = lastSchema)
              /\ rpc' = "columns"
              /\ propIdx' = 1
              /\ UNCHANGED <<schemaExists, tableExists, columns, lastSchema>>
    /\ UNCHANGED <<flushVars, cls, table_cache, schema_cache>>

\* the reconciliation goes on to the next property, or returns
NextProperty ==
    /\ propIdx' = propIdx + 1
    /\ rpc' = IF propIdx = Len(schema) THEN "idle" ELSE "columns"
    /\ lastSchema' = IF propIdx = Len(schema) THEN schema ELSE lastSchema
    /\ UNCHANGED <<rerr, rnames>>

\* the reconciliation ends with an exception
RaiseDDL(e) ==
    /\ rerr' = e
    /\ rnames' = ErrorNames(e)
    /\ rpc' = "idle"
    /\ lastSchema' = <<>>
    /\ UNCHANGED propIdx

\* prepare_column for the property prepare_table has come to.  The warehouse
\* refuses to add a column the table has, and may refuse an ALTER.
PrepareColumn ==
    /\ rpc = "columns"
    /\ LET p    == schema[propIdx]
           view == get_table_columns(cls, table_cache, columns, {})
           stmt == prepare_column(view, p.name, to_sql_type(p.type))
       IN  /\ table_cache' = table_cache_after(cls, table_cache, columns, {})
           /\ ddl' = IF stmt.op \in {"ADD COLUMN", "ALTER COLUMN"}
                     THEN Append(ddl, stmt) ELSE ddl
           /\ \/ /\ stmt = NoDDL
                 /\ NextProperty
                 /\ UNCHANGED columns
              \/ /\ stmt.op = "NotImplementedError"
                 /\ RaiseDDL("NotImplementedError")
                 /\ UNCHANGED columns
              \/ /\ stmt.op = "ADD COLUMN"
                 /\ IF stmt.col \in DOMAIN columns
                    THEN RaiseDDL("add_column") /\ UNCHANGED columns
                    ELSE /\ columns' = (stmt.col :> stmt.type) @@ columns
                         /\ NextProperty
              \/ /\ stmt.op = "ALTER COLUMN"
                 /\ columns' = [columns EXCEPT ![stmt.col] = stmt.type]
                 /\ NextProperty
              \/ /\ stmt.op = "ALTER COLUMN"
                 /\ RaiseDDL("alter_column")
                 /\ UNCHANGED columns
    /\ UNCHANGED <<flushVars, tableExists, schemaExists, cls, schema_cache, schema,
                   sameAgain, nReconciles>>

NextDDL ==
    \/ PrepareSchema
    \/ PrepareTableStart
    \/ PrepareColumn

\* the connector class of sinks.py
SpecSinkDDL == InitSinkDDL /\ [][NextDDL]_vars
\* the connector class of connector.py
SpecConnectorDDL == InitConnectorDDL /\ [][NextDDL]_vars

\* ------------------------------------------ part 3: the pure functions
\* what the application of a pure function leaves alone
restOfPure == <<flushState, ddlState, tableExists, schemaExists, concVars, unitVars>>

InitPure ==
    /\ Start
    /\ ConcurrentIdle
    /\ UnitIdle
    /\ key_properties = <<"id">>
    /\ clean_up_batch_files = TRUE
    /\ errorOnNondetMerge = TRUE
    /\ cls = "sinks"

\* a property's JSON schema, and no type computed from it
InitTypes ==
    /\ InitPure
    /\ field \in JsonSchemas
    /\ sinks_sql_type = NoType
    /\ connector_sql_type = NoType
    /\ identifier = <<>>
    /\ prepared = <<>>

\* SnowflakeConnector.to_sql_type(field), sinks.py
SinksToSqlType ==
    /\ sinks_sql_type = NoType
    /\ sinks_sql_type' = to_sql_type(field)
    /\ UNCHANGED <<restOfPure, field, connector_sql_type, identifier, prepared>>

\* SnowflakeConnector.to_sql_type(field), connector.py
ConnectorToSqlType ==
    /\ connector_sql_type = NoType
    /\ connector_sql_type' \in connector_to_sql_type(field)
    /\ UNCHANGED <<restOfPure, field, sinks_sql_type, identifier, prepared>>

NextTypes ==
    \/ SinksToSqlType
    \/ ConnectorToSqlType

SpecTypes == InitTypes /\ [][NextTypes]_vars

\* ---- identifiers
\* a name has at most MaxNameLen characters, and is normalised MaxPrepares times
MaxNameLen == 3
MaxPrepares == 2
\* letters in both cases, a colon, an underscore
Chars == {"a", "s", "A", "S", ":", "_"}
Identifiers == UNION {[1..n -> Chars] : n \in 1..MaxNameLen}

\* str.upper() and str.lower(), character by character
upper(x) ==
    [i \in 1..Len(x) |-> CASE x[i] = "a" -> "A" [] x[i] = "s" -> "S" [] OTHER -> x[i]]
lower(x) ==
    [i \in 1..Len(x) |-> CASE x[i] = "A" -> "a" [] x[i] = "S" -> "s" [] OTHER -> x[i]]

\* The engine's quoting rule: a name is quoted when it is a reserved word
\* ("as"), holds a character outside the bare-identifier charset (a colon,
\* a quote), or has upper-case letters to preserve.
requires_quotes(x) ==
    \/ lower(x) = <<"a", "s">>
    \/ \E i \in 1..Len(x) : x[i] \in {":", "\""}
    \/ lower(x) # x

\* a slip: the name becomes its quoted form, in upper case
quoted_upper(x) ==
    IF requires_quotes(x) THEN <<"\"">> \o upper(x) \o <<"\"">> ELSE x

\* The rule of prepare_column and schema_exists: a name whose quoted form has
\* quotes becomes upper case, any other name stays as it is.
normalize(x) ==
    IF requires_quotes(x) THEN upper(x) ELSE x

\* a name, not normalised yet
InitNames ==
    /\ InitPure
    /\ field = NoField
    /\ sinks_sql_type = NoType
    /\ connector_sql_type = NoType
    /\ identifier \in Identifiers
    /\ prepared = <<>>

\* the name the next call is given: the result of the call before it
Current == IF prepared = <<>> THEN identifier ELSE prepared[Len(prepared)].name

\* prepare_column(full_table_name, column_name, sql_type): its column_name
PrepareColumnName ==
    /\ Len(prepared) < MaxPrepares
    /\ prepared' = Append(prepared, [call |-> "prepare_column",
                                      name |-> normalize(Current)])
    /\ UNCHANGED <<restOfPure, field, sinks_sql_type, connector_sql_type, identifier>>

\* schema_exists(schema_name): its schema_name
SchemaExistsName ==
    /\ Len(prepared) < MaxPrepares
    /\ prepared' = Append(prepared, [call |-> "schema_exists",
                                      name |-> normalize(Current)])
    /\ UNCHANGED <<restOfPure, field, sinks_sql_type, connector_sql_type, identifier>>

NextNames ==
    \/ PrepareColumnName
    \/ SchemaExistsName

SpecNames == InitNames /\ [][NextNames]_vars

\* ------------------------------------------- part 4: two sinks at once
\* Two sinks, named after their streams, whose streams map to one physical
\* table.  Each flushes up to MaxAttempts times, MaxFiles files at most.
MaxAttempts == 2
MaxFiles == 2
Sinks == {"A", "B"}

\* a slip: the generator is seeded anew at every call
seeded_uuid(returned) == 1

\* uuid4(): a value it has not returned before
uuid4(returned) == Len(returned) + 1

\* a slip: the statement names the whole stage, not the path of the sync_id
staged_anywhere(path, stg) == stg

\* the files under '@~/target-snowflake/<sync_id>': those the load selects
\* from and those the remove deletes
staged_under(path, stg) == {e \in stg : e.path = path}

IdleSink ==
    [pc |-> "idle", attempt |-> 0, batch_id |-> <<>>, sync_id |-> <<>>,
     nfiles |-> 0, putIdx |-> 0, err |-> "none", loaded |-> FALSE,
     read |-> {}, format_seen |-> FALSE, others |-> FALSE, spared |-> FALSE]

InitConcurrent ==
    /\ Start
    /\ PureIdle
    /\ UnitIdle
    /\ key_properties = <<"id">>
    /\ clean_up_batch_files = TRUE
    /\ errorOnNondetMerge = TRUE
    /\ cls = "sinks"
    /\ sink = [s \in Sinks |-> IdleSink]
    /\ stage = {}
    /\ file_formats = {}
    /\ generated = <<>>
    /\ creates = 0

\* what the flush of a sink leaves alone, the table's existence apart
restOfConcurrent == <<flushState, ddlState, schemaExists, pureVars, unitVars>>

\* the sink s goes to the finally block with the exception e
RaiseIn(s, e) == sink' = [sink EXCEPT ![s].err = e, ![s].pc = "drop"]

\* bulk_insert_records: get_batches names the batch files after a sync_id of
\* its own, and process_batch_files begins with another: stream name and uuid4
BeginFlush(s) ==
    /\ sink[s].pc = "idle"
    /\ sink[s].attempt < MaxAttempts
    /\ \E n \in 1..MaxFiles :
        LET b  == uuid4(generated)
            g  == Append(generated, b)
            u  == uuid4(g)
        IN  /\ sink' = [sink EXCEPT ![s] =
                    [IdleSink EXCEPT !.pc = "put",
                                     !.attempt = sink[s].attempt + 1,
                                     !.batch_id = <<s, b>>,
                                     !.sync_id = <<s, u>>,
                                     !.nfiles = n,
                                     !.putIdx = 1]]
            /\ generated' = Append(g, u)
    /\ UNCHANGED <<restOfConcurrent, tableExists, stage, file_formats, creates>>

\* for file_uri in files: put '<file_uri>' '@~/target-snowflake/<sync_id>'
PutFile(s) ==
    /\ sink[s].pc = "put"
    /\ \/ /\ stage' = stage \cup {[path |-> sink[s].sync_id,
                                     idx |-> sink[s].putIdx,
                                     by |-> <<s, sink[s].attempt>>]}
          /\ sink' = [sink EXCEPT
                        ![s].putIdx = @ + 1,
                        ![s].pc = IF sink[s].putIdx = sink[s].nfiles
                                  THEN "format" ELSE "put"]
       \/ /\ RaiseIn(s, "put")
          /\ UNCHANGED stage
    /\ UNCHANGED <<restOfConcurrent, tableExists, file_formats, generated, creates>>

\* create schema if not exists; create or replace file format "<sync_id>"
CreateFormat(s) ==
    /\ sink[s].pc = "format"
    /\ \/ /\ file_formats' = file_formats \cup {sink[s].sync_id}
          /\ sink' = [sink EXCEPT ![s].pc = "exists"]
       \/ /\ RaiseIn(s, "create_file_format")
          /\ UNCHANGED file_formats
    /\ UNCHANGED <<restOfConcurrent, tableExists, stage, generated, creates>>

\* prepare_table: is the table there?  The columns of a table that is there
\* are those of the schema, and nothing is added or altered.
TableExists(s) ==
    /\ sink[s].pc = "exists"
    /\ sink' = [sink EXCEPT ![s].pc = IF tableExists THEN "merge" ELSE "create_all"]
    /\ UNCHANGED <<restOfConcurrent, tableExists, stage, file_formats, generated,
                   creates>>

\* create_empty_table: create schema if not exists, use schema, and
\* meta.create_all, which looks for the table before it creates it
CreateAll(s) ==
    /\ sink[s].pc = "create_all"
    /\ sink' = [sink EXCEPT ![s].pc = IF tableExists THEN "merge" ELSE "create_table"]
    /\ UNCHANGED <<restOfConcurrent, tableExists, stage, file_formats, generated,
                   creates>>

\* meta.create_all: CREATE TABLE, which the warehouse refuses for a table
\* that is there
CreateTable(s) ==
    /\ sink[s].pc = "create_table"
    /\ creates' = creates + 1
    /\ IF tableExists
       THEN RaiseIn(s, "create_table") /\ UNCHANGED tableExists
       ELSE /\ tableExists' = TRUE
            /\ sink' = [sink EXCEPT ![s].pc = "merge"]
    /\ UNCHANGED <<restOfConcurrent, stage, file_formats, generated>>

\* execute(merge_statement): the load reads the files under its sync_id, with
\* the file format named after it
MergeStaged(s) ==
    /\ sink[s].pc = "merge"
    /\ LET r == staged_under(sink[s].sync_id, stage)
       IN  \/ sink' = [sink EXCEPT ![s].loaded = TRUE,
                                    ![s].read = r,
                                    ![s].format_seen = sink[s].sync_id \in file_formats,
                                    ![s].others = (stage # r),
                                    ![s].pc = "drop"]
           \/ RaiseIn(s, "merge")
    /\ UNCHANGED <<restOfConcurrent, tableExists, stage, file_formats, generated,
                   creates>>

\* finally: drop file format if exists "<sync_id>"; an exception ends the flush
DropFormat(s) ==
    /\ sink[s].pc = "drop"
    /\ \/ /\ file_formats' = file_formats \ {sink[s].sync_id}
          /\ sink' = [sink EXCEPT ![s].pc = "remove"]
       \/ /\ sink' = [sink EXCEPT ![s].err = "drop_file_format", ![s].pc = "idle"]
          /\ UNCHANGED file_formats
    /\ UNCHANGED <<restOfConcurrent, tableExists, stage, generated, creates>>

\* finally: remove '@~/target-snowflake/<sync_id>/'
RemoveFiles(s) ==
    /\ sink[s].pc = "remove"
    /\ \/ /\ stage' = stage \ staged_under(sink[s].sync_id, stage)
          /\ sink' = [sink EXCEPT ![s].pc = "idle",
                                   ![s].spared = (stage' # {})]
       \/ /\ sink' = [sink EXCEPT ![s].err = "remove", ![s].pc = "idle"]
          /\ UNCHANGED stage
    /\ UNCHANGED <<restOfConcurrent, tableExists, file_formats, generated, creates>>

NextConcurrent ==
    \E s \in Sinks :
        \/ BeginFlush(s)
        \/ PutFile(s)
        \/ CreateFormat(s)
        \/ TableExists(s)
        \/ CreateAll(s)
        \/ CreateTable(s)
        \/ MergeStaged(s)
        \/ DropFormat(s)
        \/ RemoveFiles(s)

SpecConcurrent == InitConcurrent /\ [][NextConcurrent]_vars

\* ------------------------------------------- part 5: the remaining units
\* the state of parts 1 to 4 at rest
InitUnit ==
    /\ Start
    /\ PureIdle
    /\ ConcurrentIdle
    /\ key_properties = <<"id">>
    /\ clean_up_batch_files = TRUE
    /\ errorOnNondetMerge = TRUE

\* what a unit of part 5 leaves alone of parts 1 to 4
restOfUnit == <<flushState, ddlState, tableExists, schemaExists, pureVars, concVars>>

\* ---- SnowflakeConnector.auth_method
\* The settings that auth_method looks at.  A credential is absent, the empty
\* string or set; use_browser_authentication is absent, false or true.
CredentialKeys == {"password", "private_key", "private_key_path", "oauth_access_token"}
AuthConfigs ==
    [CredentialKeys \cup {"use_browser_authentication"} -> {"absent", "", "set"}]

\* the members of SnowflakeAuthMethod
SnowflakeAuthMethod == {"BROWSER", "PASSWORD", "KEY_PAIR"}

\* config.get("use_browser_authentication") is true; "" stands for false
use_browser_authentication(cfg) == cfg["use_browser_authentication"] = "set"

auth_method(cfg) ==
    IF use_browser_authentication(cfg) THEN "BROWSER"
    ELSE LET valid_auth_methods == {"private_key", "private_key_path", "password"}
             config_auth_methods == {x \in valid_auth_methods : cfg[x] # "absent"}
         IN  IF Cardinality(config_auth_methods) # 1 THEN "ConfigValidationError"
             ELSE IF config_auth_methods \subseteq {"private_key", "private_key_path"}
                  THEN "KEY_PAIR"
                  ELSE "PASSWORD"

InitAuth ==
    /\ InitUnit
    /\ cls = "connector"
    /\ BatchesIdle
    /\ PutIdle
    /\ InitializerIdle
    /\ column_calls = <<>>
    /\ MergeIdle
    /\ auth_config \in AuthConfigs
    /\ auth = "none"

\* connector.auth_method, a cached property: computed once
AuthMethod ==
    /\ auth = "none"
    /\ auth' = auth_method(auth_config)
    /\ UNCHANGED <<restOfUnit, auth_config, batchVars, putVars, initVars,
                   column_calls, mergeVars>>

NextAuth == AuthMethod

SpecAuth == InitAuth /\ [][NextAuth]_vars

\* ---- SnowflakeSink.get_batches
\* a batch has at most MaxRecords records
MaxRecords == 3

\* a slip: the file name lacks the number of the chunk
filename_of_batch(i) == 1

\* filename = "<prefix><sync_id>-<i>.json.gz": within one call, the number i
filename(i) == i

\* the chunks that enumerate(..., start=1) numbers
Chunks == lazy_chunked_generator(batch_records, max_size)

InitBatches ==
    /\ InitUnit
    /\ cls = "sinks"
    /\ AuthIdle
    /\ PutIdle
    /\ InitializerIdle
    /\ column_calls = <<>>
    /\ MergeIdle
    /\ batch_records \in {<<>>} \cup SeqsUpTo(Records, MaxRecords)
    /\ max_size \in 1..MaxBatch
    /\ batch_i = 1
    /\ written = <<>>
    /\ file_urls = <<>>
    /\ batches_returned = FALSE

\* one turn of the loop: the chunk is written to the file of its number, one
\* record a line, and the file's URL is appended to file_urls.  Mode "wb"
\* replaces a file of that name.
WriteBatchFile ==
    /\ ~batches_returned
    /\ batch_i <= Len(Chunks)
    /\ written' = [f \in DOMAIN written \cup {filename(batch_i)} |->
                     IF f = filename(batch_i) THEN Chunks[batch_i] ELSE written[f]]
    /\ file_urls' = Append(file_urls, filename(batch_i))
    /\ batch_i' = batch_i + 1
    /\ UNCHANGED <<restOfUnit, authVars, putVars, initVars, column_calls,
                   mergeVars, batch_records, max_size, batches_returned>>

\* return batch_config.encoding, file_urls
ReturnBatches ==
    /\ ~batches_returned
    /\ batch_i > Len(Chunks)
    /\ batches_returned' = TRUE
    /\ UNCHANGED <<restOfUnit, authVars, putVars, initVars, column_calls,
                   mergeVars, batch_records, max_size, batch_i, written, file_urls>>

NextBatches ==
    \/ WriteBatchFile
    \/ ReturnBatches

SpecBatches == InitBatches /\ [][NextBatches]_vars

\* ---- the PUT statement
\* a flush stages at most MaxPuts files
MaxPuts == 2
FileUris == {"/tmp/a.json.gz", "/tmp/b.json.gz", "/tmp/it's.json.gz",
             "C:\\tmp\\a.json.gz", "/tmp/a b.json.gz"}
SyncIds == {"users-0001", "orders-0002"}

\* _get_put_statement(sync_id, file_uri): the text of the statement, piece by
\* piece, and the parameters returned with it.  The class of sinks.py writes
\* the URI into the text; the class of connector.py writes :file_uri.
_get_put_statement(c, sid, file_uri) ==
    IF c = "sinks"
    THEN [text |-> <<"put '", file_uri, "' '@~/target-snowflake/", sid, "'">>,
          kwargs |-> {}]
    ELSE [text |-> <<"put ", ":file_uri", " '@~/target-snowflake/", sid, "'">>,
          kwargs |-> {}]

\* What execute is given.  process_batch_files of sinks.py passes the
\* statement with its kwargs; put_batches_to_stage of connector.py adds the
\* parameter file_uri.
put_execute(c, sid, file_uri) ==
    LET st == _get_put_statement(c, sid, file_uri)
    IN  [file_uri |-> file_uri,
         text |-> st.text,
         params |-> IF c = "sinks" THEN st.kwargs
                    ELSE {<<"file_uri", file_uri>>} \cup st.kwargs]

InitPut ==
    /\ InitUnit
    /\ cls \in {"sinks", "connector"}
    /\ AuthIdle
    /\ BatchesIdle
    /\ InitializerIdle
    /\ column_calls = <<>>
    /\ MergeIdle
    /\ put_sync_id \in SyncIds
    /\ put_calls = <<>>

\* for file_uri in files: execute(put_statement, ...)
PutBatchToStage ==
    /\ Len(put_calls) < MaxPuts
    /\ \E file_uri \in FileUris :
          put_calls' = Append(put_calls, put_execute(cls, put_sync_id, file_uri))
    /\ UNCHANGED <<restOfUnit, authVars, batchVars, initVars, column_calls,
                   mergeVars, put_sync_id>>

NextPut == PutBatchToStage

SpecPut == InitPut /\ [][NextPut]_vars

\* ---- initializer()
\* script.split(";") has at most MaxPieces pieces
MaxPieces == 3
\* A piece is a statement or is blank (the text after the last semicolon).
Scripts == SeqsUpTo({"statement", "blank"}, MaxPieces)

\* what the initializer leaves alone
restOfInitializer ==
    <<restOfUnit, authVars, batchVars, putVars, column_calls, mergeVars>>

InitInitializer ==
    /\ InitUnit
    /\ cls = "connector"
    /\ AuthIdle
    /\ BatchesIdle
    /\ PutIdle
    /\ column_calls = <<>>
    /\ MergeIdle
    /\ init_pc = "prompts"
    /\ dry_run = FALSE
    /\ script = <<>>
    /\ stmt_i = 0
    /\ confirm = "none"
    /\ connected = FALSE
    /\ executed = <<>>
    /\ echoed = FALSE
    /\ exit_status = -1

\* the announcement, the prompt for dry_run, the prompts for the names and
\* the password, and get_initialize_script
Prompts ==
    /\ init_pc = "prompts"
    /\ dry_run' \in BOOLEAN
    /\ script' \in Scripts
    /\ init_pc' = IF dry_run' THEN "dry_run" ELSE "connect"
    /\ UNCHANGED <<restOfInitializer, stmt_i, confirm, connected, executed, echoed,
                   exit_status>>

\* if dry_run: click.echo(script); sys.exit(0)
DryRun ==
    /\ init_pc = "dry_run"
    /\ echoed' = TRUE
    /\ exit_status' = 0
    /\ init_pc' = "exited"
    /\ UNCHANGED <<restOfInitializer, dry_run, script, stmt_i, confirm, connected,
                   executed>>

\* except Exception: click.echo("Initialization Failed"); sys.exit(1)
Failed ==
    /\ exit_status' = 1
    /\ init_pc' = "exited"

\* the prompts for the account and the administrator, the connector, and
\* "with connector._connect() as conn", which may raise
Connect ==
    /\ init_pc = "connect"
    /\ \/ /\ connected' = TRUE
          /\ init_pc' = "confirm"
          /\ UNCHANGED exit_status
       \/ /\ Failed
          /\ UNCHANGED connected
    /\ UNCHANGED <<restOfInitializer, dry_run, script, stmt_i, confirm, executed,
                   echoed>>

\* click.echo(script); click.prompt("Confirm?", default=True, type=bool): the
\* value the prompt returns is not kept
Confirm ==
    /\ init_pc = "confirm"
    /\ echoed' = TRUE
    /\ confirm' \in {"yes", "no"}
    /\ stmt_i' = 1
    /\ init_pc' = "execute"
    /\ UNCHANGED <<restOfInitializer, dry_run, script, connected, executed,
                   exit_status>>

\* for statement in script.split(";"): a piece that is not blank is executed,
\* which may raise
ExecuteStatement ==
    /\ init_pc = "execute"
    /\ stmt_i <= Len(script)
    /\ IF script[stmt_i] = "blank"
       THEN /\ stmt_i' = stmt_i + 1
            /\ UNCHANGED <<executed, init_pc, exit_status>>
       ELSE /\ executed' = Append(executed, stmt_i)
            /\ \/ /\ stmt_i' = stmt_i + 1
                  /\ UNCHANGED <<init_pc, exit_status>>
               \/ /\ Failed
                  /\ UNCHANGED stmt_i
    /\ UNCHANGED <<restOfInitializer, dry_run, script, confirm, connected, echoed>>

\* click.echo("Initialization Complete"), and initializer() returns
Complete ==
    /\ init_pc = "execute"
    /\ stmt_i > Len(script)
    /\ init_pc' = "returned"
    /\ UNCHANGED <<restOfInitializer, dry_run, script, stmt_i, confirm, connected,
                   executed, echoed, exit_status>>

NextInitializer ==
    \/ Prompts
    \/ DryRun
    \/ Connect
    \/ Confirm
    \/ ExecuteStatement
    \/ Complete

SpecInitializer == InitInitializer /\ [][NextInitializer]_vars

\* ---- get_table_columns, call after call
\* a connector is asked for the columns of the table MaxCalls times
MaxCalls == 2
\* the tables of the warehouse: columns A and b, or one of them
Tables == {[n \in d |-> NUMBER] : d \in (SUBSET {"A", "b"}) \ {{}}}
\* the argument column_names: None or empty, or names in either case
Filters == SUBSET {"a", "B", "c"}

\* what a call of get_table_columns leaves alone
restOfColumns ==
    <<flushState, tableExists, schemaExists, pureVars, concVars, authVars, batchVars,
      putVars, initVars, mergeVars, cls, columns, schema_cache, rpc, schema, propIdx, ddl,
      rerr, lastSchema, sameAgain, nReconciles, rnames>>

InitColumns ==
    /\ StartButColumns
    /\ PureIdle
    /\ ConcurrentIdle
    /\ key_properties = <<"id">>
    /\ clean_up_batch_files = TRUE
    /\ errorOnNondetMerge = TRUE
    /\ AuthIdle
    /\ BatchesIdle
    /\ PutIdle
    /\ InitializerIdle
    /\ cls \in {"sinks", "connector"}
    /\ columns \in Tables
    /\ column_calls = <<>>
    /\ MergeIdle

\* get_table_columns(full_table_name, column_names)
GetTableColumns ==
    /\ Len(column_calls) < MaxCalls
    /\ \E column_names \in Filters :
        /\ column_calls' = Append(column_calls,
               [column_names |-> column_names,
                result |-> get_table_columns(cls, table_cache, columns, column_names)])
        /\ table_cache' = table_cache_after(cls, table_cache, columns, column_names)
    /\ UNCHANGED restOfColumns

NextColumns == GetTableColumns

SpecColumns == InitColumns /\ [][NextColumns]_vars

\* ---- the MERGE statement
\* a property name has at most MaxPropLen characters
MaxPropLen == 2
PropertyNames == {x \in Identifiers : Len(x) <= MaxPropLen}

\* the identifier between double quotes
quote_identifier(x) == <<"\"">> \o x \o <<"\"">>

\* formatter.format_collation(name): the name, quoted when the engine's rule
\* asks for quotes
format_collation(x) == IF requires_quotes(x) THEN quote_identifier(x) ELSE x

\* '"' in name
has_quote(x) == \E i \in 1..Len(x) : x[i] = "\""

\* _get_column_selections, connector.py: the alias is the formatted name, in
\* upper case when it is quoted
_get_column_selections(properties) ==
    [i \in Indices(properties) |->
        LET clean_property_name == format_collation(properties[i])
        IN  [clean_property_name |-> clean_property_name,
             clean_alias |-> IF has_quote(clean_property_name)
                             THEN upper(clean_property_name)
                             ELSE clean_property_name]]

\* _get_merge_from_stage_statement, connector.py, clause by clause: the
\* projection of the staged source with its aliases, join_expr,
\* matched_clause, not_matched_insert_cols and not_matched_insert_values
_get_merge_from_stage_statement(properties, keys) ==
    LET formatted_properties ==
            [i \in Indices(properties) |-> format_collation(properties[i])]
        formatted_key_properties ==
            [i \in Indices(keys) |-> format_collation(keys[i])]
    IN  [select |-> _get_column_selections(properties),
         on |-> [i \in Indices(keys) |->
                    [d |-> formatted_key_properties[i], s |-> formatted_key_properties[i]]],
         update_set |-> [i \in Indices(properties) |->
                    [d |-> formatted_properties[i], s |-> formatted_properties[i]]],
         insert_cols |-> formatted_properties,
         insert_values |-> formatted_properties]

\* _get_merge_statement, sinks.py: every name in upper case, quoted but in
\* the list of the columns to insert
_get_merge_statement(properties, keys) ==
    LET upper_properties == [i \in Indices(properties) |-> upper(properties[i])]
        upper_key_properties ==
            [i \in Indices(keys) |-> upper(keys[i])]
    IN  [select |-> [i \in Indices(properties) |->
                    [clean_property_name |-> properties[i],
                     clean_alias |-> quote_identifier(upper(properties[i]))]],
         on |-> [i \in Indices(keys) |->
                    [d |-> quote_identifier(upper_key_properties[i]),
                     s |-> quote_identifier(upper_key_properties[i])]],
         update_set |-> [i \in Indices(properties) |->
                    [d |-> quote_identifier(upper_properties[i]),
                     s |-> quote_identifier(upper_properties[i])]],
         insert_cols |-> upper_properties,
         insert_values |-> [i \in Indices(properties) |->
                    quote_identifier(upper_properties[i])]]

InitMerge ==
    /\ InitUnit
    /\ cls \in {"sinks", "connector"}
    /\ AuthIdle
    /\ BatchesIdle
    /\ PutIdle
    /\ InitializerIdle
    /\ column_calls = <<>>
    \* a schema of one property or two, and the key properties among them
    /\ \E x \in PropertyNames, y \in PropertyNames \cup {<<>>} :
          /\ y # x
          /\ merge_properties = IF y = <<>> THEN <<x>> ELSE <<x, y>>
          /\ merge_keys \in IF y = <<>> THEN {<<x>>} ELSE {<<x>>, <<y>>, <<x, y>>}
    /\ merge_statement = <<>>

\* the statement of the class at work, for the schema and its key properties
BuildMergeStatement ==
    /\ merge_statement = <<>>
    /\ merge_statement' =
          IF cls = "sinks"
          THEN _get_merge_statement(merge_properties, merge_keys)
          ELSE _get_merge_from_stage_statement(merge_properties, merge_keys)
    /\ UNCHANGED <<restOfUnit, authVars, batchVars, putVars, initVars, column_calls,
                   merge_properties, merge_keys>>

NextMerge == BuildMergeStatement

SpecMerge == InitMerge /\ [][NextMerge]_vars

\* ---------------------------------------------------------------- claims
\* the load statement of the flush in progress has run without raising
Loaded == pc \in {"drop", "remove", "clean_local"} /\ err = "none"
\* the flush has ended, by returning or by raising
Ended == pc = "idle" /\ result # "none"
\* the flush raised inside the try block, at one of its steps
RaisedInTry == err \in {"put", "create_schema", "create_file_format", "prepare_table", "merge"}
Executed(stmt) == \E n \in Indices(log) : log[n] = stmt
RowsOfKey(k) == {i \in Indices(table) : table[i].id = k}

\* C1: dedup on merge.  For a stream with key properties, when the merge of
\* a flush has run, every key of the staged batch has exactly one row in the
\* table, and the row carries the amount of the batch's last record with
\* that key.
C1_DedupOnMerge ==
    (Loaded /\ key_properties # <<>>) =>
        \A k \in Keys :
            LastAmount(Flatten(files), k) # 0 =>
                /\ Cardinality(RowsOfKey(k)) = 1
                /\ \A i \in RowsOfKey(k) : table[i].amount = LastAmount(Flatten(files), k)

\* C2: upsert, not append.  For a stream with key properties the table
\* never holds two rows of one key, and every row carries the amount of the
\* record flushed last with its key.
C2_UpsertNotAppend ==
    key_properties # <<>> =>
        \A k \in Keys :
            /\ Cardinality(RowsOfKey(k)) <= 1
            /\ \A i \in RowsOfKey(k) : table[i].amount = lastFlushed[k]

\* C3: idempotent redelivery.  When the files of the last flush that
\* returned normally are flushed again, the load leaves the rows of the table
\* as that flush left them.
C3_IdempotentRedelivery ==
    (redelivery /\ Loaded /\ key_properties # <<>>) => SameRows(table, prevTable)

\* C4: cleanup on failure.  A flush in which a step of the try block
\* raised executes both the drop of the file format and the remove of the
\* staged files before it ends, and ends by raising.
C4_CleanupOnFailure ==
    (Ended /\ RaisedInTry) =>
        /\ Executed("drop_file_format")
        /\ Executed("remove")
        /\ result = "raised"

\* C5: no leaked staging resources.  Whenever no flush is in progress, no
\* staged file and no file format of any sync_id is left.
C5_NoLeakedStaging ==
    pc = "idle" => (staged = {} /\ formats = {})

\* C6: cleanup failures never replace or suppress the original error.  A
\* flush whose load raised ends with that exception, whatever the cleanup
\* statements do, and a flush whose try block raised nothing returns normally.
C6_CleanupNeverMasks ==
    Ended =>
        /\ err # "none" => (result = "raised" /\ exc = err)
        /\ err = "none" => result = "ok"

\* C7: append for key-less streams.  With no key property a flush
\* executes no MERGE statement, and when its load has run the table has one
\* new row for every record of the batch.
C7_AppendKeyless ==
    key_properties = <<>> =>
        /\ ~Executed("merge")
        /\ Loaded => Len(table) = startLen + Len(Flatten(files))

\* a reconciliation has returned, without an exception
Reconciled == rpc = "idle" /\ nReconciles > 0 /\ rerr = "none"
Issued(op) == \E i \in Indices(ddl) : ddl[i].op = op

\* C8: idempotent reconciliation.  A reconciliation that repeats the schema
\* of the one before it, against the table that one left, issues no DDL
\* statement: no ADD COLUMN and no ALTER COLUMN.
C8_IdempotentReconciliation ==
    sameAgain => ddl = <<>>

\* C9: grow-only, widen-only table.  No step removes the table or one of
\* its columns; a column changes its type only while its property is being
\* prepared, only to the merge of its type and the type the property maps
\* to, and never to a type that is not above its own; no DROP COLUMN is
\* issued.
C9_GrowOnlyWidenOnly ==
    [][/\ tableExists => tableExists'
       /\ \A n \in DOMAIN columns :
            /\ n \in DOMAIN columns'
            /\ columns'[n] # columns[n] =>
                 /\ rpc = "columns"
                 /\ schema[propIdx].name = n
                 /\ columns'[n] = merge_sql_types(columns[n], to_sql_type(schema[propIdx].type))
                 /\ Leq(columns[n], columns'[n])
       /\ \A i \in Indices(ddl') : ddl'[i].op \in {"CREATE TABLE", "ADD COLUMN", "ALTER COLUMN"}
      ]_vars

\* C9's case: an ALTER COLUMN has changed the type of a column, and an ADD
\* COLUMN has added another, in a reconciliation that returned
C9_Witness ==
    /\ Reconciled
    /\ \E i \in Indices(ddl) :
        /\ ddl[i].op = "ALTER COLUMN"
        /\ columns[ddl[i].col] = ddl[i].type
    /\ Issued("ADD COLUMN")

\* C10: cache invalidation on DDL.  The columns get_table_columns returns
\* for the table are the columns the table has, after every DDL statement
\* this process has issued, and a schema that schema_cache reports exists.
C10_CacheInvalidatedOnDDL ==
    /\ get_table_columns(cls, table_cache, columns, {}) = columns
    /\ target_schema \in schema_cache => schemaExists

\* the property has the one concrete type tag, with or without "null"
Single(f, tag) == f.type \ {"null"} = {tag}
\* a string property with no format
IsText(f) == Single(f, "string") /\ f.format = ""
\* min(declared maxLength, ceiling), the ceiling when none is declared
Clamped(f) ==
    IF f.maxLength = 0 THEN max_varchar_length
    ELSE Min(f.maxLength, max_varchar_length)

\* C11: varchar clamping.  A string property with no format maps to a
\* VARCHAR whose length is min(declared maxLength, 16777216), and 16777216
\* when it declares none, with either connector class.
C11_VarcharClamping ==
    IsText(field) =>
        /\ sinks_sql_type # NoType => sinks_sql_type = VARCHAR(Clamped(field))
        /\ connector_sql_type # NoType => connector_sql_type = VARCHAR(Clamped(field))

MultiTyped(f) ==
    \/ Cardinality(f.type \ {"null"}) > 1
    \/ "object" \in f.type
    \/ "array" \in f.type

\* C13: multi-typed fields map to the semi-structured type.  to_sql_type,
\* as the sink calls it, returns VARIANT for every type list with more than
\* one concrete type or with object or array in it.
C13_MultiTypedVariant ==
    (MultiTyped(field) /\ sinks_sql_type # NoType) => sinks_sql_type = VARIANT

\* C14: identifier normalisation is idempotent.  Normalising a name that
\* has been normalised returns it unchanged, and so does normalising the
\* name twice in one go.
C14_NormalizeIdempotent ==
    /\ \A i \in 2..Len(prepared) : prepared[i].name = prepared[1].name
    /\ normalize(normalize(identifier)) = normalize(identifier)

\* C14's case: a mixed-case name with a colon has been normalised twice, and
\* the first normalisation changed it
C14_Witness ==
    /\ Len(prepared) = 2
    /\ \E i \in 1..Len(identifier) : identifier[i] = ":"
    /\ \E i \in 1..Len(identifier) : identifier[i] \in {"a", "s"}
    /\ prepared[1].name # identifier

\* C16: schema evolution error.  When a column must be altered and the
\* alteration is not allowed, or the warehouse rejects it, the step changes
\* no column, ends the reconciliation with the error, and the error names
\* the table, the column, the old type and the attempted type.
C16_SchemaEvolutionError ==
    [][(rpc = "columns" /\ rerr' \in {"NotImplementedError", "alter_column"}) =>
          /\ columns' = columns
          /\ rpc' = "idle"
          /\ {"table", "column", "old type", "attempted type"} \subseteq rnames'
      ]_vars

\* the files the current flush of the sink s staged
OwnFiles(s) ==
    {[path |-> sink[s].sync_id, idx |-> i, by |-> <<s, sink[s].attempt>>] :
        i \in 1..sink[s].nfiles}

\* a file format that goes was dropped by the flush it is named after, and
\* a staged file that goes was removed by the flush that staged it
CleanupOfOwn ==
    /\ \A f \in file_formats \ file_formats' :
          \E s \in Sinks : /\ sink[s].pc = "drop" /\ sink'[s].pc = "remove"
                            /\ f = sink[s].sync_id
    /\ \A e \in stage \ stage' :
          \E s \in Sinks : /\ sink[s].pc = "remove" /\ sink'[s].pc = "idle"
                            /\ e.path = sink[s].sync_id
                            /\ e.by = <<s, sink[s].attempt>>

\* C18: concurrent flushes of different sinks do not interfere.  A load
\* reads exactly the files its own flush staged, with its file format
\* there; and a step that drops a file format or removes staged files is the
\* cleanup of the flush they belong to.
C18_NoInterference ==
    /\ [](\A s \in Sinks :
            sink[s].loaded => sink[s].read = OwnFiles(s) /\ sink[s].format_seen)
    /\ [][CleanupOfOwn]_vars

\* C18's case: a sink has loaded its files while files of the other sink's
\* flush were on the stage, and the other sink's cleanup has removed its
\* files and left files of this one there
C18_Witness ==
    \E s, t \in Sinks :
        /\ s # t
        /\ sink[s].loaded /\ sink[s].others
        /\ sink[s].read = OwnFiles(s)
        /\ sink[t].pc = "idle" /\ sink[t].spared /\ sink[t].err = "none"

\* C19: table-level DDL is serialised per physical table.  Of two sinks
\* that load into one table, at most one issues CREATE TABLE for it.
C19_OneCreateTable == creates <= 1

\* C20: a fresh sync identity for every flush attempt.  No value of uuid4
\* is used twice, so no two attempts share a sync_id, the stage path or the
\* file format named after it, and a load reads no file another attempt
\* staged, a failed attempt of the same sink included.
C20_FreshSyncId ==
    /\ \A i, j \in 1..Len(generated) : i # j => generated[i] # generated[j]
    /\ \A s, t \in Sinks :
          (s # t /\ sink[s].attempt > 0 /\ sink[t].attempt > 0)
              => sink[s].sync_id # sink[t].sync_id
    /\ \A e1, e2 \in stage : e1.path = e2.path => e1.by = e2.by
    /\ \A s \in Sinks : \A e \in sink[s].read : e.by = <<s, sink[s].attempt>>

\* C20's case: the second attempt of a sink has loaded its files while files
\* that its first attempt staged were still on the stage
C20_Witness ==
    \E s \in Sinks :
        /\ sink[s].attempt = 2
        /\ sink[s].loaded /\ sink[s].read # {}
        /\ \E e \in stage : e.by = <<s, 1>>

\* the configuration whose only credential is the key k
OnlyCredential(cfg, k) ==
    /\ cfg[k] = "set"
    /\ \A x \in CredentialKeys \ {k} : cfg[x] = "absent"
    /\ cfg["use_browser_authentication"] = "absent"

\* C21: selection of the authentication method.  PASSWORD when password is
\* the only credential, KEY_PAIR when private_key is, OAUTH when
\* oauth_access_token is, and BROWSER when use_browser_authentication is true.
C21_AuthMethodSelection ==
    auth # "none" =>
        /\ OnlyCredential(auth_config, "password") => auth = "PASSWORD"
        /\ OnlyCredential(auth_config, "private_key") => auth = "KEY_PAIR"
        /\ use_browser_authentication(auth_config) => auth = "BROWSER"
        /\ OnlyCredential(auth_config, "oauth_access_token") => auth = "OAUTH"

\* C22: the cleanup steps run independently of one another.  In a flush that
\* has ended, a drop of the file format that was executed was followed by the
\* remove of the staged files, and with clean_up_batch_files set none of the
\* flush's local files is left, whichever cleanup statement failed.
C22_IndependentCleanup ==
    Ended =>
        /\ Executed("drop_file_format") => Executed("remove")
        /\ clean_up_batch_files => \A f \in localFiles : f[1] # sync_id

\* the statements of the finally block
CleanupStatements == {"drop_file_format", "remove"}

C24_BatchFilesLossless ==
    batches_returned =>
        /\ file_urls = [j \in 1..Len(file_urls) |-> j]
        /\ \A j \in Indices(file_urls) :
              /\ file_urls[j] \in DOMAIN written
              /\ Len(written[file_urls[j]]) \in 1..max_size
        /\ Flatten([j \in Indices(file_urls) |-> written[file_urls[j]]]) = batch_records

\* C24's case: three records went to two files, the second one not full
C24_Witness ==
    /\ batches_returned
    /\ Len(batch_records) = 3 /\ max_size = 2
    /\ Len(file_urls) = 2
    /\ Len(written[2]) = 1

\* C26: the file path of a PUT is a bound parameter.  For one sync_id the
\* text of the PUT statement is the same for any two files, no piece of the
\* text is the file's URI, and the URI is in the parameters given to
\* execute.
C26_PutBindsFileUri ==
    /\ \A i, j \in Indices(put_calls) : put_calls[i].text = put_calls[j].text
    /\ \A i \in Indices(put_calls) :
          /\ \A n \in Indices(put_calls[i].text) :
                put_calls[i].text[n] # put_calls[i].file_uri
          /\ <<"file_uri", put_calls[i].file_uri>> \in put_calls[i].params

\* the local batch files of the flush in progress, or of the last one
LocalFilesOfFlush == {<<sync_id, i>> : i \in Indices(files)}

\* C27: the local batch files follow clean_up_batch_files.  When a flush
\* whose load succeeded has ended, none of its local files is left if the
\* flag is set and all of them are left if it is not, and in both cases none
\* of its staged files is left.
C27_LocalFilesFollowFlag ==
    (Ended /\ Executed("merge") /\ err = "none") =>
        /\ clean_up_batch_files => LocalFilesOfFlush \cap localFiles = {}
        /\ ~clean_up_batch_files => LocalFilesOfFlush \subseteq localFiles
        /\ \A f \in staged : f[1] # sync_id

\* C28: the initializer executes nothing without confirmation.  A statement
\* has been executed only if "Confirm?" was answered yes; and a dry run
\* prints the script, uses no connection, executes nothing and exits with
\* status 0.
C28_NothingWithoutConfirmation ==
    /\ executed # <<>> => confirm = "yes"
    /\ (dry_run /\ init_pc = "exited") =>
          /\ echoed
          /\ ~connected
          /\ executed = <<>>
          /\ exit_status = 0

\* C29: get_table_columns returns the columns of the table whose case-folded
\* name is in column_names, all of them when column_names is empty,
\* whatever calls came before.
C29_ColumnsFollowFilter ==
    \A i \in Indices(column_calls) :
        column_calls[i].result = Selected(columns, column_calls[i].column_names)

\* a name as the statement of the class at work writes it for a column
ColumnOf(x) == IF cls = "sinks" THEN quote_identifier(upper(x)) ELSE format_collation(x)
KeyColumns == {ColumnOf(merge_keys[i]) : i \in Indices(merge_keys)}
AllColumns == {ColumnOf(merge_properties[i]) : i \in Indices(merge_properties)}

\* C25: the shape of the MERGE statement for a stream with key properties.
\* ON joins target and source on the key columns and on nothing else, WHEN
\* MATCHED updates the columns that are not keys and no key column, and WHEN
\* NOT MATCHED inserts all columns of the schema.
C25_MergeShape ==
    merge_statement # <<>> =>
        /\ {merge_statement.on[i].d : i \in Indices(merge_statement.on)} = KeyColumns
        /\ \A i \in Indices(merge_statement.on) :
              merge_statement.on[i].d = merge_statement.on[i].s
        /\ {merge_statement.update_set[i].d : i \in Indices(merge_statement.update_set)}
              = AllColumns \ KeyColumns
        /\ {merge_statement.insert_values[i] : i \in Indices(merge_statement.insert_values)}
              = AllColumns
        /\ Len(merge_statement.insert_cols) = Len(merge_properties)

\* an identifier without its quotes
unquote(x) == IF has_quote(x) THEN SubSeq(x, 2, Len(x) - 1) ELSE x

\* C30: in the MERGE of _get_merge_from_stage_statement the identifier of
\* the staged source's column in ON, UPDATE SET and INSERT is, for every
\* property, the alias the projection gives it, character by character, and
\* the alias names the column prepare_column creates for the property.
C30_SourceColumnIsAlias ==
    (merge_statement # <<>> /\ cls = "connector") =>
        \A i \in Indices(merge_properties) :
            LET alias == merge_statement.select[i].clean_alias
            IN  /\ merge_statement.update_set[i].s = alias
                /\ merge_statement.insert_values[i] = alias
                /\ \A k \in Indices(merge_keys) :
                      merge_keys[k] = merge_properties[i] => merge_statement.on[k].s = alias
                /\ unquote(alias) = normalize(merge_properties[i])

=============================================================================
